---- MODULE Spec2Model ----
(***************************************************************************)
(* A session of gpt-pilot: async_main (core/cli/main.py) checks the LLM     *)
(* API, loads or creates the project and calls run_project, which drives   *)
(* the orchestrator; it invokes the Architect (core/agents/architect.py)   *)
(* and the CodeMonkey (core/agents/code_monkey.py) on the state manager's   *)
(* current (committed) and next (working) snapshots.                        *)
(*                                                                         *)
(* Python objects that are shared by reference (the lists of system        *)
(* dependency dicts) live in `heap`; a snapshot holds the list's object id. *)
(* Every await of the code is the end of one action, so that an exception   *)
(* or an interruption can arrive exactly where the code can receive it.     *)
(***************************************************************************)
EXTENDS Integers, Sequences, FiniteSets, TLC

----------------------------------------------------------------------------
(* Bounds of the model *)

\* longest list of system (and of package) dependencies a project declares
MaxDeps == 2
\* number of save_file steps of the task
MaxSteps == 2
\* the reviewer asks for a rework only while the attempt is below this
MaxAttempt == 3
\* the most model configurations config.all_llms() lists
MaxLlms == 2

----------------------------------------------------------------------------
(* Values *)

\* Python's None
None == "None"

\* an action label is the tuple of the pieces its f-string is made of
ARCHITECTURE_STEP_NAME == << "Project architecture" >>
WARN_SYSTEM_DEPS == {"docker", "kubernetes", "microservices"}
WARN_FRAMEWORKS == {"next.js", "vue", "vue.js", "svelte", "angular"}

\* str.lower() on the dependency names the model uses
Lower(s) ==
    CASE s = "Node.js" -> "node.js"
      [] s = "Docker" -> "docker"
      [] s = "Python" -> "python"
      [] s = "Express" -> "express"
      [] s = "Vue.js" -> "vue.js"
      [] s = "React" -> "react"
      [] OTHER -> s

\* a path is its sequence of components; os.path.basename is the last one
Basename(path) == path[Len(path)]

\* the save_file paths of the task's steps, in order
StepPool == << <<"app.py">>, <<"lib", "util.py">>, <<"lib", "db.py">>, <<"main.py">> >>
TaskSteps == SubSeq(StepPool, 1, MaxSteps)
TaskInstructions == "Implement the app"

\* dict merge {**a, **b}: the keys of b win
Merge(a, b) == [k \in (DOMAIN a) \cup (DOMAIN b) |-> IF k \in DOMAIN b THEN b[k] ELSE a[k]]
EmptyDict == [k \in {} |-> None]

\* dict.get(key) with Python's default of None
Get(d, k) == IF k \in DOMAIN d THEN d[k] ELSE None

\* Python truthiness of a str-or-None value
Truthy(v) == v # None /\ v # ""

Range(s) == {s[n] : n \in 1..Len(s)}

\* the contiguous sub-lists of pool of length at most MaxDeps
SubLists(pool) ==
    {SubSeq(pool, a, b) : a \in 1..Len(pool), b \in 0..Len(pool)} \cap
    UNION {[1..n -> Range(pool)] : n \in 0..MaxDeps}

SysDep(name, cmd, local) ==
    [name |-> name, description |-> name, test |-> cmd, required_locally |-> local]
PkgDep(name) == [name |-> name, description |-> name]

SysDepPool == << SysDep("Node.js", "node --version", TRUE),
                 SysDep("Docker", "docker --version", FALSE),
                 SysDep("Python", "python --version", TRUE) >>
PkgDepPool == << PkgDep("Express"), PkgDep("Vue.js") >>
\* the package lists the model may declare: without and with a denylisted framework
PkgLists == {SubSeq(PkgDepPool, 1, 1), SubSeq(PkgDepPool, 1, 2)}

\* pydantic's model_dump of a dependency: a fresh dict of the model's fields
ModelDump(d) == [k \in DOMAIN d |-> d[k]]

\* what the model may answer to the "technologies" conversation, parsed as an
\* Architecture with both lists present (every field defaults to None, so a list
\* may also be missing: PlanArchitecture has that answer as a case of its own)
Architectures ==
    {[architecture |-> "web app", system_dependencies |-> s,
      package_dependencies |-> p,
      template |-> IF Len(s) = 0 THEN None ELSE "NODE_EXPRESS_MONGOOSE"] :
        s \in SubLists(SysDepPool), p \in PkgLists}

\* ProjectTemplateEnum.value
TemplateValue(t) == IF t = "NODE_EXPRESS_MONGOOSE" THEN "node_express_mongoose" ELSE t

\* what the model may answer to the "implement_changes" conversation
Contents == {"", "code"}

\* what the model may answer to the "describe_file" conversation
FileDescriptions ==
    {[summary |-> "A module", references |-> <<>>],
     [summary |-> "The entry point", references |-> << <<"lib", "util.py">> >>]}

File(path, content, meta) == [path |-> path, content |-> content, meta |-> meta]

\* the file lists a project may hold when the run starts (a new project has none;
\* a resumed one has the files of its checkpoint)
InitialFiles ==
    { <<>>,
      << File(<<"app.py">>, "", EmptyDict) >>,
      << File(<<"app.py">>, "old", [lang |-> "python"]),
         File(<<"README.md">>, "", [description |-> "Read me", references |-> <<>>]) >>,
      << File(<<"README.md">>, "", [lang |-> "markdown", references |-> << <<"app.py">> >>]),
         File(<<"lib", "util.py">>, "old", [description |-> ""]) >> }

----------------------------------------------------------------------------
(* State *)

VARIABLES
    pc,          \* where async_main, the session, the orchestrator or the agent stands
    exc,         \* the exception in flight out of Orchestrator.run, or None
    result,      \* what run_project returned: None, "True" or "False"
    log,         \* the committed checkpoints of the active branch, oldest first
    cur,         \* index in log of the current (committed) snapshot
    next,        \* the working snapshot: <<s>>, or <<>> once discarded
    heap,        \* the dependency lists, by object id
    stage,       \* the orchestrator's place in the pipeline
    step,        \* index in TaskSteps of the save_file step being implemented
    response,    \* the last agent response (prev_response of the next agent)
    spec,        \* Architect.run: the cloned specification
    arch,        \* Architect.plan_architecture: the parsed Architecture
    i,           \* Architect.check_system_dependencies: index of the next dep
    to_describe, \* CodeMonkey.describe_files: path -> content of the files to describe
    j,           \* CodeMonkey.describe_files: index of the next file
    attempt,     \* CodeMonkey.implement_changes: the attempt number
    feedback,    \* CodeMonkey.implement_changes: the review feedback, or None
    main,        \* async_main and the session: arguments, locals and calls made
    obs          \* observations of the run, read by the properties only

vars == <<pc, exc, result, log, cur, next, heap, stage, step, response, spec, arch,
          i, to_describe, j, attempt, feedback, main, obs>>

----------------------------------------------------------------------------
(* Snapshots and the state manager *)

Snapshot(specification, files, action) ==
    [specification |-> specification, files |-> files, action |-> action]

\* StateManager.current_state and StateManager.next_state
get_current == log[cur]
working == next[1]

\* a snapshot with its dependency list read through the heap: what an observer of
\* the snapshot sees
Deref(s) == [s EXCEPT !.specification.system_dependencies = heap[@]]

\* Specification.clone(): a new Specification holding the same field values, the
\* lists by reference
Clone(s) == [k \in DOMAIN s |-> s[k]]

\* the predefined bundle EXAMPLE_PROJECTS[name]["architecture"]; its list of
\* system dependencies is the heap object "bundle"
ExampleArchitecture ==
    [architecture |-> "example app", system_dependencies |-> "bundle",
     package_dependencies |-> << ModelDump(PkgDep("Express")) >>,
     template |-> None]

\* the bundle's system dependencies as the module defines them: dicts with no
\* installed key
ExampleDeps ==
    [n \in 1..MaxDeps |-> ModelDump(SysDepPool[n])]

NoResponse == [type |-> None, data |-> EmptyDict]
\* AgentResponse.done(agent)
Done == [type |-> "done", data |-> EmptyDict]

\* the index of the file record with this path in a file list, 0 when there is none
IndexOf(files, path) ==
    IF \E n \in 1..Len(files) : files[n].path = path
    THEN CHOOSE n \in 1..Len(files) : files[n].path = path
    ELSE 0

\* StateManager.get_file_by_path: the committed file record's content, None when the
\* path has no record
get_file_by_path(path) ==
    LET n == IndexOf(get_current.files, path)
    IN  IF n = 0 THEN None ELSE get_current.files[n].content

\* record_file(path, content) on a snapshot: the record's content is replaced and
\* its metadata kept; a new path gets a record with no metadata
record_file(s, path, content) ==
    LET n == IndexOf(s.files, path)
    IN  IF n = 0
        THEN [s EXCEPT !.files = Append(@, File(path, content, EmptyDict))]
        ELSE [s EXCEPT !.files[n].content = content]

NewObs(first) ==
    [start |-> first, pre |-> first, commits |-> 0, rollbacks |-> 0,
     raised_at |-> None, agent |-> None, llm_calls |-> 0, described |-> <<>>,
     ran |-> <<>>, prompts |-> <<>>, warnings |-> <<>>, cancelled |-> FALSE,
     attempts |-> <<>>, finished |-> 0, notified |-> 0,
     prev |-> NoResponse, pre_next |-> first, variant |-> None]

\* the checkpoints a session may start from: a project with no architecture yet
\* (new, or an example project), or one resumed after its architecture step
InitialProjects ==
    {[specification |-> [architecture |-> "", system_dependencies |-> <<>>,
                         package_dependencies |-> <<>>, template |-> None,
                         example_project |-> example],
      action |-> << "Initial project state" >>] : example \in {None, "example"}}
    \cup
    {[specification |-> [architecture |-> "web app",
                         system_dependencies |->
                             << Merge(ModelDump(SysDepPool[1]), [installed |-> TRUE]) >>,
                         package_dependencies |-> << ModelDump(PkgDepPool[1]) >>,
                         template |-> None, example_project |-> None],
      action |-> ARCHITECTURE_STEP_NAME]}

\* the providers a model configuration can name
LLMProvider == {"openai", "anthropic"}
\* the step indexes --step can name
StepIndexes == {0, 1}

\* the command line: --project and --branch name an id or are absent, --step is an
\* integer or absent (<<>> is None, <<n>> the integer n)
Arguments ==
    [project : {None, "project"}, branch : {None, "branch"},
     step : {<<>>} \cup {<<n>> : n \in StepIndexes}]

\* config.all_llms(): one configuration per agent model, each naming its provider
LlmConfigs ==
    UNION {[1..n -> LLMProvider] : n \in 1..MaxLlms}

\* async_main's and the session's state before anything ran
NewMain(args, llms) ==
    [args |-> args, llms |-> llms, k |-> 1, checked_llms |-> {}, success |-> TRUE,
     contacted |-> <<>>, ui_started |-> FALSE, loaded |-> 0, load_args |-> <<>>,
     asked |-> 0, user_input |-> None, created |-> 0, session |-> None, telemetry_sent |-> 0,
     ui_stopped |-> 0, returned |-> None]

NoArguments == [project |-> None, branch |-> None, step |-> <<>>]

Init ==
    \E files \in InitialFiles, project \in InitialProjects,
       args \in Arguments, llms \in LlmConfigs :
        /\ main = NewMain(args, llms)
        /\ heap = [loaded |-> project.specification.system_dependencies,
                   bundle |-> ExampleDeps, dumped |-> <<>>]
        /\ log = << Snapshot([project.specification EXCEPT
                                 !.system_dependencies = "loaded"],
                             files, project.action) >>
        /\ cur = 1
        /\ next = << log[1] >>
        /\ obs = NewObs(Snapshot(project.specification, files, project.action))
        /\ stage = IF project.specification.architecture = ""
                   THEN "architecture" ELSE "implement"
        /\ pc = "async_main"
        /\ exc = None
        /\ result = None
        /\ step = 1
        /\ response = NoResponse
        /\ spec = log[1].specification
        /\ arch = None
        /\ i = 1
        /\ to_describe = EmptyDict
        /\ j = 1
        /\ attempt = 0
        /\ feedback = None

\* an exception leaves the running agent and Orchestrator.run; run_project's
\* except clauses take over
Raise(kind) ==
    /\ pc' = "except"
    /\ exc' = kind
    /\ obs' = [obs EXCEPT !.raised_at = pc]

----------------------------------------------------------------------------
(* Orchestrator.run *)

\* the agent the response and the pipeline stage call for
AgentFor ==
    CASE response.type = "code_review" -> "reviewer"
      [] response.type = "code_review_feedback" -> "code_monkey"
      [] response.type = "describe_files" -> "code_monkey"
      [] stage = "architecture" -> "architect"
      [] OTHER -> "code_monkey"

\* the orchestrator picks the next agent and invokes it
CreateAgent ==
    /\ pc = "orca"
    /\ response.type # "done"
    /\ stage # "complete"
    /\ pc' = AgentFor
    /\ obs' = [obs EXCEPT !.pre = Deref(get_current), !.agent = AgentFor,
                          !.llm_calls = 0, !.described = <<>>, !.ran = <<>>,
                          !.prompts = <<>>, !.warnings = <<>>, !.cancelled = FALSE,
                          !.prev = response, !.pre_next = Deref(working),
                          !.variant = None]
    /\ UNCHANGED <<main, exc, result, log, cur, next, heap, stage, step, response, spec,
                   arch, i, to_describe, j, attempt, feedback>>

\* a done response: commit(next) appends the working snapshot as a checkpoint and
\* makes it current, begin_next() clones it, and the pipeline advances
HandleDone ==
    /\ pc = "orca"
    /\ response.type = "done"
    /\ log' = Append(log, working)
    /\ cur' = Len(log) + 1
    /\ next' = << working >>
    /\ obs' = [obs EXCEPT !.commits = @ + 1, !.agent = None,
                          !.finished = IF stage = "implement" /\ step < Len(TaskSteps)
                                       THEN Len(obs.attempts) ELSE 0,
                          !.attempts = <<>>]
    /\ IF stage = "architecture" \/ (stage = "implement" /\ step < Len(TaskSteps))
       THEN /\ stage' = "implement"
            /\ step' = IF stage = "architecture" THEN 1 ELSE step + 1
            /\ response' = NoResponse
       ELSE IF stage = "implement"
       THEN /\ stage' = "describe"
            /\ step' = step
            /\ response' = [type |-> "describe_files", data |-> EmptyDict]
       ELSE /\ stage' = "complete"
            /\ step' = step
            /\ response' = NoResponse
    /\ UNCHANGED <<main, pc, exc, result, heap, spec, arch, i, to_describe, j, attempt,
                   feedback>>

----------------------------------------------------------------------------
(* How an await can end *)

\* ui.send_message: delivered, or the UI is gone (UIClosedError)
SendOutcomes == {"sent", "closed"}
\* ui.ask_question: the button is pressed, the returned UserInput is cancelled, or
\* the UI is gone (UIClosedError)
AskOutcomes == {"continue", "cancelled", "closed"}
\* process_manager.run_command: the exit status, or the operator interrupts
CommandOutcomes == {"exit0", "exit1", "interrupted"}
ExitCode(o) == IF o = "exit0" THEN 0 ELSE 1
\* a call of the model: an answer, a transport error, or the operator interrupts
LlmFailures == {"APIError", "KeyboardInterrupt"}

----------------------------------------------------------------------------
(* Architect *)

\* the slip of comparing the names as they are spelled
WarnNamesCaseSensitive(deps, denylist) ==
    LET hit == SelectSeq(deps, LAMBDA d : d.name \in denylist)
    IN  [n \in 1..Len(hit) |-> hit[n].name]

\* [dep.name for dep in deps if dep.name.lower() in denylist]
WarnNames(deps, denylist) ==
    LET hit == SelectSeq(deps, LAMBDA d : Lower(d.name) \in denylist)
    IN  [n \in 1..Len(hit) |-> hit[n].name]

\* the question warn_about_dependencies asks
Warning(deps, dep_type, url) ==
    [deps |-> deps, dep_type |-> dep_type,
     pronoun |-> IF Len(deps) = 1 THEN "it" ELSE "them", url |-> url]

WARN_FRAMEWORKS_URL ==
    "https://github.com/Pythagora-io/gpt-pilot/wiki/Using-GPT-Pilot-with-frontend-frameworks"

\* prepare_example_project: the specification takes the bundle's values, the lists
\* by reference
prepare_example_project(s) ==
    [s EXCEPT !.architecture = ExampleArchitecture.architecture,
              !.system_dependencies = ExampleArchitecture.system_dependencies,
              !.package_dependencies = ExampleArchitecture.package_dependencies,
              !.template = ExampleArchitecture.template]

\* the slip of planning every project with the model, example projects too
ArchitectRunAlwaysPlans ==
    /\ pc = "architect"
    /\ \E ui \in SendOutcomes :
          /\ spec' = Clone(get_current.specification)
          /\ IF ui = "sent"
             THEN pc' = "plan" /\ UNCHANGED <<exc, obs>>
             ELSE Raise("UIClosedError")
    /\ i' = 1
    /\ UNCHANGED <<main, result, log, cur, next, heap, stage, step, response, arch,
                   to_describe, j, attempt, feedback>>

\* Architect.run up to its first await: the specification is cloned; an example
\* project is prepared from the bundle, any other is planned with the model
ArchitectRun ==
    /\ pc = "architect"
    /\ LET s == Clone(get_current.specification)
       IN  IF s.example_project # None
           THEN /\ spec' = prepare_example_project(s)
                /\ pc' = "check_deps"
                /\ UNCHANGED <<exc, obs>>
           ELSE \E ui \in SendOutcomes :
                    /\ spec' = s
                    /\ IF ui = "sent"
                       THEN pc' = "plan" /\ UNCHANGED <<exc, obs>>
                       ELSE Raise("UIClosedError")
    /\ i' = 1
    /\ UNCHANGED <<main, result, log, cur, next, heap, stage, step, response, arch,
                   to_describe, j, attempt, feedback>>

\* plan_architecture after check_compatibility: the planned values go into the
\* specification, the dependency lists as fresh lists of fresh dicts
AssignArchitecture(a) ==
    /\ spec' = [spec EXCEPT
                  !.architecture = a.architecture,
                  !.system_dependencies = "dumped",
                  !.package_dependencies =
                      [n \in 1..Len(a.package_dependencies) |->
                          ModelDump(a.package_dependencies[n])],
                  !.template = IF a.template # None THEN TemplateValue(a.template)
                               ELSE None]
    /\ heap' = [heap EXCEPT !.dumped =
                  [n \in 1..Len(a.system_dependencies) |->
                      ModelDump(a.system_dependencies[n])]]
    /\ pc' = "check_deps"

\* plan_architecture: the model is asked once; check_compatibility then looks the
\* declared dependencies up in the denylists
PlanArchitecture ==
    /\ pc = "plan"
    /\ \/ \E a \in Architectures :
            LET warn_system_deps == WarnNames(a.system_dependencies, WARN_SYSTEM_DEPS)
                warn_package_deps == WarnNames(a.package_dependencies, WARN_FRAMEWORKS)
            IN  /\ arch' = a
                /\ obs' = [obs EXCEPT !.llm_calls = @ + 1]
                /\ exc' = exc
                /\ IF Len(warn_system_deps) > 0
                   THEN pc' = "warn_system" /\ UNCHANGED <<spec, heap>>
                   ELSE IF Len(warn_package_deps) > 0
                   THEN pc' = "warn_frameworks" /\ UNCHANGED <<spec, heap>>
                   ELSE AssignArchitecture(a)
       \/ \* the answer has no system_dependencies: iterating None is a TypeError
          /\ pc' = "except"
          /\ exc' = "Exception"
          /\ obs' = [obs EXCEPT !.llm_calls = @ + 1, !.raised_at = pc]
          /\ UNCHANGED <<spec, heap, arch>>
       \/ \E failure \in LlmFailures :
            /\ pc' = "except"
            /\ exc' = failure
            /\ obs' = [obs EXCEPT !.llm_calls = @ + 1, !.raised_at = pc]
            /\ UNCHANGED <<spec, heap, arch>>
    /\ UNCHANGED <<main, result, log, cur, next, stage, step, response, i, to_describe, j,
                   attempt, feedback>>

\* warn_about_dependencies, awaited by check_compatibility: the answer to the
\* question is not looked at
WarnAboutDependencies ==
    /\ pc \in {"warn_system", "warn_frameworks"}
    /\ LET warn_system_deps == WarnNames(arch.system_dependencies, WARN_SYSTEM_DEPS)
           warn_package_deps == WarnNames(arch.package_dependencies, WARN_FRAMEWORKS)
           warning == IF pc = "warn_system"
                      THEN Warning(warn_system_deps, "system dependencies", None)
                      ELSE Warning(warn_package_deps, "frameworks", WARN_FRAMEWORKS_URL)
       IN  \E answer \in AskOutcomes :
              IF answer = "closed"
              THEN /\ pc' = "except"
                   /\ exc' = "UIClosedError"
                   /\ obs' = [obs EXCEPT !.warnings = Append(@, warning),
                                         !.raised_at = pc]
                   /\ UNCHANGED <<spec, heap>>
              ELSE /\ obs' = [obs EXCEPT !.warnings = Append(@, warning),
                                         !.cancelled = @ \/ answer = "cancelled"]
                   /\ exc' = exc
                   /\ IF pc = "warn_system" /\ Len(warn_package_deps) > 0
                      THEN pc' = "warn_frameworks" /\ UNCHANGED <<spec, heap>>
                      ELSE AssignArchitecture(arch)
    /\ UNCHANGED <<main, result, log, cur, next, stage, step, response, arch, i,
                   to_describe, j, attempt, feedback>>

\* the slip of dep["installed"] = status_code != 0
InstalledWhenFailing(status_code) == status_code # 0

\* dep["installed"] = status_code == 0
Installed(status_code) == status_code = 0

\* one round of the loop of check_system_dependencies: the dependency's test
\* command is run and installed is written into the dependency's dict
CheckSystemDependencies ==
    /\ pc = "check_deps"
    /\ i <= Len(heap[spec.system_dependencies])
    /\ \E ran \in CommandOutcomes, ui \in SendOutcomes :
          IF ran = "interrupted"
          THEN /\ ui = "sent"
               /\ Raise("KeyboardInterrupt")
               /\ UNCHANGED <<heap, i>>
          ELSE LET status_code == ExitCode(ran)
                   run == [dep |-> i, status_code |-> status_code]
               IN  /\ heap' = [heap EXCEPT ![spec.system_dependencies][i] =
                                  Merge(@, [installed |-> Installed(status_code)])]
                   /\ IF ui = "closed"
                      THEN /\ pc' = "except"
                           /\ exc' = "UIClosedError"
                           /\ obs' = [obs EXCEPT !.ran = Append(@, run), !.raised_at = pc]
                           /\ i' = i
                      ELSE /\ obs' = [obs EXCEPT !.ran = Append(@, run)]
                           /\ exc' = exc
                           /\ IF status_code # 0
                              THEN pc' = "ask_installed" /\ i' = i
                              ELSE pc' = "check_deps" /\ i' = i + 1
    /\ UNCHANGED <<main, result, log, cur, next, stage, step, response, spec, arch,
                   to_describe, j, attempt, feedback>>

\* the question asked for a dependency that is not available; the answer is not
\* looked at, and the loop goes on
AskInstalled ==
    /\ pc = "ask_installed"
    /\ \E answer \in AskOutcomes :
          IF answer = "closed"
          THEN /\ pc' = "except"
               /\ exc' = "UIClosedError"
               /\ obs' = [obs EXCEPT !.prompts = Append(@, i), !.raised_at = pc]
               /\ i' = i
          ELSE /\ obs' = [obs EXCEPT !.prompts = Append(@, i),
                                     !.cancelled = @ \/ answer = "cancelled"]
               /\ exc' = exc
               /\ pc' = "check_deps"
               /\ i' = i + 1
    /\ UNCHANGED <<main, result, log, cur, next, heap, stage, step, response, spec, arch,
                   to_describe, j, attempt, feedback>>

\* the slip of storing the result in current_state
WriteSpecificationToCurrent(s) ==
    /\ log' = [log EXCEPT ![cur].specification = s,
                          ![cur].action = ARCHITECTURE_STEP_NAME]
    /\ UNCHANGED <<main, next>>

\* Architect.run stores its result: the specification and the action label
WriteSpecification(s) ==
    /\ next' = << [working EXCEPT !.specification = s,
                                  !.action = ARCHITECTURE_STEP_NAME] >>
    /\ UNCHANGED <<main, log>>

\* the loop of check_system_dependencies is over: Architect.run writes the
\* specification into the working snapshot and returns done
ArchitectReturn ==
    /\ pc = "check_deps"
    /\ i > Len(heap[spec.system_dependencies])
    /\ WriteSpecification(spec)
    /\ response' = Done
    /\ pc' = "orca"
    /\ UNCHANGED <<main, exc, result, cur, heap, stage, step, spec, arch, i, to_describe,
                   j, attempt, feedback, obs>>

----------------------------------------------------------------------------
(* CodeMonkey *)

\* the slip of handing the proposal over as the file's prior content too
CodeReviewOfProposal(path, instructions, old_content, new_content, n) ==
    [type |-> "code_review",
     data |-> [path |-> path, instructions |-> instructions,
               old_content |-> new_content, new_content |-> new_content,
               attempt |-> n]]

\* AgentResponse.code_review(agent, path, instructions, old_content, new_content,
\* attempt)
CodeReview(path, instructions, old_content, new_content, n) ==
    [type |-> "code_review",
     data |-> [path |-> path, instructions |-> instructions,
               old_content |-> old_content, new_content |-> new_content,
               attempt |-> n]]

\* the slip of taking over the attempt number of the feedback as it is
handle_previous_response_same_attempt(prev) ==
    IF prev.type = "code_review_feedback"
    THEN << prev.data.attempt, prev.data.feedback >>
    ELSE << 1, None >>

\* handle_previous_response: the attempt number and the feedback to work with
handle_previous_response(prev) ==
    IF prev.type = "code_review_feedback"
    THEN << prev.data.attempt + 1, prev.data.feedback >>
    ELSE << 1, None >>

\* the file the step saves, and its committed content ("" when it does not exist)
file_name == TaskSteps[step]
file_content ==
    LET content == get_file_by_path(file_name)
    IN  IF content # None THEN content ELSE ""

\* the slip of testing the file's name where its content is meant
ActionLabelByName(name, content) ==
    IF name # <<>>
    THEN << "Update file", Basename(name) >>
    ELSE << "Create file", Basename(name) >>

\* the label handle_previous_response sets for a first attempt
ActionLabel(name, content) ==
    IF content # ""
    THEN << "Update file", Basename(name) >>
    ELSE << "Create file", Basename(name) >>

\* the slip of writing the label into the committed snapshot
SetActionOnCurrent(label) ==
    /\ log' = [log EXCEPT ![cur].action = label]
    /\ UNCHANGED <<next>>

\* handle_previous_response writes the action label
SetAction(label) ==
    /\ next' = << [working EXCEPT !.action = label] >>
    /\ UNCHANGED <<log>>

\* the slip of collecting only the files that have content
ToDescribeWithContent(files) ==
    LET pending == {n \in 1..Len(files) :
                       /\ ~Truthy(Get(files[n].meta, "description"))
                       /\ files[n].content # ""}
    IN  [p \in {files[n].path : n \in pending} |->
            files[CHOOSE n \in pending : files[n].path = p].content]

\* {file.path: file.content.content for file in files if not
\* file.meta.get("description")}
ToDescribe(files) ==
    LET pending == {n \in 1..Len(files) : ~Truthy(Get(files[n].meta, "description"))}
    IN  [p \in {files[n].path : n \in pending} |->
            files[CHOOSE n \in pending : files[n].path = p].content]

\* the slip of taking any previous response for a request to describe files
DescribesAfterAnyResponse(prev) == prev.type # None

\* CodeMonkey.run's test: the previous response asks for file descriptions
Describes(prev) == prev.type # None /\ prev.type = "describe_files"

\* CodeMonkey.run up to its first await: describe_files after a describe_files
\* response, implement_changes (with handle_previous_response) otherwise
CodeMonkeyRun ==
    /\ pc = "code_monkey"
    /\ IF Describes(response)
       THEN /\ to_describe' = ToDescribe(get_current.files)
            /\ j' = 1
            /\ pc' = "describe"
            /\ obs' = [obs EXCEPT !.variant = "describe_files"]
            /\ UNCHANGED <<exc, log, next, attempt, feedback>>
       ELSE \E ui \in SendOutcomes :
              IF ui = "closed"
              THEN /\ pc' = "except"
                   /\ exc' = "UIClosedError"
                   /\ obs' = [obs EXCEPT !.raised_at = pc,
                                         !.variant = "implement_changes"]
                   /\ UNCHANGED <<log, next, attempt, feedback, to_describe, j>>
              ELSE /\ attempt' = handle_previous_response(response)[1]
                   /\ feedback' = handle_previous_response(response)[2]
                   /\ IF response.type = "code_review_feedback"
                      THEN UNCHANGED <<log, next>>
                      ELSE SetAction(ActionLabel(file_name, file_content))
                   /\ pc' = "implement"
                   /\ obs' = [obs EXCEPT !.variant = "implement_changes"]
                   /\ UNCHANGED <<exc, to_describe, j>>
    /\ UNCHANGED <<main, result, cur, heap, stage, step, response, spec, arch, i>>

\* implement_changes: the model is asked for the file's new content, which goes
\* to review together with the attempt number
ImplementChanges ==
    /\ pc = "implement"
    /\ \/ \E new_content \in Contents :
            /\ response' = CodeReview(file_name, TaskInstructions, file_content,
                                      new_content, attempt)
            /\ obs' = [obs EXCEPT !.llm_calls = @ + 1,
                                  !.attempts = Append(@, attempt)]
            /\ pc' = "orca"
            /\ exc' = exc
       \/ \E failure \in LlmFailures :
            /\ pc' = "except"
            /\ exc' = failure
            /\ obs' = [obs EXCEPT !.llm_calls = @ + 1, !.raised_at = pc]
            /\ response' = response
    /\ UNCHANGED <<main, result, log, cur, next, heap, stage, step, spec, arch, i,
                   to_describe, j, attempt, feedback>>

\* the slip of file.meta = {"description": ..., "references": ...}
DescribedReplacing(file, description, references) ==
    [file EXCEPT !.meta = [description |-> description, references |-> references]]

\* file.meta = {**file.meta, "description": ..., "references": ...}
Described(file, description, references) ==
    [file EXCEPT !.meta = Merge(@, [description |-> description,
                                    references |-> references])]

\* the slip of sending every file to describe to the model
NeedsModelAlways(content) == TRUE

\* a file to describe goes to the model unless its content is empty
NeedsModel(content) == content # ""

\* one round of the loop of describe_files over the working snapshot's files
DescribeFiles ==
    /\ pc = "describe"
    /\ j <= Len(working.files)
    /\ LET file == working.files[j]
           content == Get(to_describe, file.path)
       IN  IF content = None
           THEN /\ j' = j + 1
                /\ UNCHANGED <<pc, exc, next, obs>>
           ELSE IF ~NeedsModel(content)
           THEN /\ next' = << [working EXCEPT !.files[j] =
                                  Described(file, "Empty file", <<>>)] >>
                /\ j' = j + 1
                /\ UNCHANGED <<pc, exc, obs>>
           ELSE \/ \E llm_response \in FileDescriptions :
                     /\ next' = << [working EXCEPT !.files[j] =
                                      Described(file, llm_response.summary,
                                                llm_response.references)] >>
                     /\ obs' = [obs EXCEPT !.llm_calls = @ + 1,
                                           !.described = Append(@, file.path)]
                     /\ j' = j + 1
                     /\ UNCHANGED <<pc, exc>>
                \/ \E failure \in LlmFailures :
                     /\ pc' = "except"
                     /\ exc' = failure
                     /\ obs' = [obs EXCEPT !.llm_calls = @ + 1,
                                           !.described = Append(@, file.path),
                                           !.raised_at = pc]
                     /\ UNCHANGED <<next, j>>
                \/ \* the message before the call finds the UI gone
                   /\ Raise("UIClosedError")
                   /\ UNCHANGED <<next, j>>
    /\ UNCHANGED <<main, result, log, cur, heap, stage, step, response, spec, arch, i,
                   to_describe, attempt, feedback>>

\* the loop of describe_files is over: done
DescribeReturn ==
    /\ pc = "describe"
    /\ j > Len(working.files)
    /\ response' = Done
    /\ pc' = "orca"
    /\ UNCHANGED <<main, exc, result, log, cur, next, heap, stage, step, spec, arch, i,
                   to_describe, j, attempt, feedback, obs>>

----------------------------------------------------------------------------
(* The reviewer of a proposed file *)

\* the proposal is accepted and recorded in the working snapshot, or it is sent
\* back with feedback and the attempt number it came with
Review ==
    /\ pc = "reviewer"
    /\ \/ /\ next' = << record_file(working, response.data.path,
                                    response.data.new_content) >>
          /\ response' = Done
       \/ /\ response.data.attempt < MaxAttempt
          /\ response' = [type |-> "code_review_feedback",
                          data |-> [attempt |-> response.data.attempt,
                                    feedback |-> "Handle the error case",
                                    new_content |-> response.data.new_content,
                                    approved_content |-> response.data.old_content]]
          /\ next' = next
    /\ pc' = "orca"
    /\ UNCHANGED <<main, exc, result, log, cur, heap, stage, step, spec, arch, i,
                   to_describe, j, attempt, feedback, obs>>

----------------------------------------------------------------------------
(* run_project *)

\* StateManager.rollback(): the working snapshot is discarded and current is the
\* last committed checkpoint
Rollback ==
    /\ next' = <<>>
    /\ cur' = Len(log)
    /\ log' = log

\* Orchestrator.run returned: run_project returns its outcome
RunReturn ==
    /\ pc = "orca"
    /\ stage = "complete"
    /\ result' = "True"
    /\ pc' = "returned"
    /\ UNCHANGED <<main, exc, log, cur, next, heap, stage, step, response, spec, arch, i,
                   to_describe, j, attempt, feedback, obs>>

\* except (KeyboardInterrupt, UIClosedError): rollback, return False
ExceptInterrupt ==
    /\ pc = "except"
    /\ exc \in {"KeyboardInterrupt", "UIClosedError"}
    /\ Rollback
    /\ obs' = [obs EXCEPT !.rollbacks = @ + 1]
    /\ result' = "False"
    /\ pc' = "returned"
    /\ UNCHANGED <<main, exc, heap, stage, step, response, spec, arch, i, to_describe, j,
                   attempt, feedback>>

\* except APIError: the operator is told, then rollback, return False
ExceptAPIError ==
    /\ pc = "except"
    /\ exc = "APIError"
    /\ \E ui \in SendOutcomes :
          IF ui = "sent"
          THEN /\ Rollback
               /\ obs' = [obs EXCEPT !.notified = @ + 1, !.rollbacks = @ + 1]
               /\ result' = "False"
               /\ pc' = "returned"
               /\ exc' = exc
          ELSE /\ pc' = "escaped"
               /\ exc' = "UIClosedError"
               /\ UNCHANGED <<log, cur, next, obs, result>>
    /\ UNCHANGED <<main, heap, stage, step, response, spec, arch, i, to_describe, j,
                   attempt, feedback>>

\* except Exception: the crash is recorded, rollback, the operator is told,
\* return False
ExceptException ==
    /\ pc = "except"
    /\ exc = "Exception"
    /\ Rollback
    /\ \E ui \in SendOutcomes :
          IF ui = "sent"
          THEN /\ obs' = [obs EXCEPT !.notified = @ + 1, !.rollbacks = @ + 1]
               /\ result' = "False"
               /\ pc' = "returned"
               /\ exc' = exc
          ELSE /\ obs' = [obs EXCEPT !.rollbacks = @ + 1]
               /\ pc' = "escaped"
               /\ exc' = "UIClosedError"
               /\ result' = result
    /\ UNCHANGED <<main, heap, stage, step, response, spec, arch, i, to_describe, j,
                   attempt, feedback>>

----------------------------------------------------------------------------

----------------------------------------------------------------------------
(* async_main, run_pythagora_session, llm_api_check, start_new_project *)

\* llm_client.api_check(): a truthy or a falsy response, APIError, or the operator
\* interrupts the await
ApiCheckOutcomes == {"truthy", "falsy", "APIError", "KeyboardInterrupt"}

\* async_main up to the session: the UI is started; when it does not start
\* async_main returns False at once
AsyncMain ==
    /\ pc = "async_main"
    /\ \E ui_started \in BOOLEAN :
          IF ui_started
          THEN /\ main' = [main EXCEPT !.ui_started = TRUE]
               /\ pc' = "llm_api_check"
          ELSE /\ main' = [main EXCEPT !.returned = "False"]
               /\ pc' = "exit"
    /\ UNCHANGED <<exc, result, log, cur, next, heap, stage, step, response, spec,
                   arch, i, to_describe, j, attempt, feedback, obs>>

\* the test the loop makes before it contacts a configuration's provider
AlreadyChecked(provider, checked_llms) == provider \in checked_llms

\* one turn of llm_api_check's loop over config.all_llms(); the loop never adds
\* to checked_llms
LlmApiCheck ==
    /\ pc = "llm_api_check"
    /\ main.k <= Len(main.llms)
    /\ LET provider == main.llms[main.k]
       IN  IF AlreadyChecked(provider, main.checked_llms)
           THEN /\ main' = [main EXCEPT !.k = @ + 1]
                /\ pc' = pc
           ELSE \E resp \in ApiCheckOutcomes, sent \in SendOutcomes :
                   LET contacted == Append(main.contacted,
                                           [provider |-> provider, resp |-> resp])
                   IN  CASE resp = "truthy" ->
                              /\ main' = [main EXCEPT !.k = @ + 1,
                                                      !.contacted = contacted]
                              /\ pc' = pc
                         [] resp = "falsy" \/ (resp = "APIError" /\ sent = "sent") ->
                              /\ main' = [main EXCEPT !.k = @ + 1, !.success = FALSE,
                                                      !.contacted = contacted]
                              /\ pc' = pc
                         [] OTHER ->
                              \* KeyboardInterrupt, or UIClosedError from the
                              \* except clause's send_message: nothing catches it
                              /\ main' = [main EXCEPT !.contacted = contacted]
                              /\ pc' = "crashed"
    /\ UNCHANGED <<exc, result, log, cur, next, heap, stage, step, response, spec,
                   arch, i, to_describe, j, attempt, feedback, obs>>

\* llm_api_check returns success; on False run_pythagora_session tells the
\* operator and returns False
LlmApiCheckReturn ==
    /\ pc = "llm_api_check"
    /\ main.k > Len(main.llms)
    /\ IF main.success
       THEN /\ pc' = "session"
            /\ main' = main
       ELSE \E sent \in SendOutcomes :
               IF sent = "sent"
               THEN /\ pc' = "shutdown"
                    /\ main' = [main EXCEPT !.session = "False"]
               ELSE /\ pc' = "crashed"
                    /\ main' = main
    /\ UNCHANGED <<exc, result, log, cur, next, heap, stage, step, response, spec,
                   arch, i, to_describe, j, attempt, feedback, obs>>

\* Python's truth value of an optional integer
TruthyInt(n) == n # <<>> /\ n[1] # 0

\* run_pythagora_session's test for a continuation
IsContinuation(args) ==
    Truthy(args.project) \/ Truthy(args.branch) \/ TruthyInt(args.step)

\* the continuation branch: load_project finds the checkpoint the arguments name
\* and makes it current, or reports that there is none
LoadProject ==
    /\ pc = "session"
    /\ IsContinuation(main.args)
    /\ \E success \in BOOLEAN :
          IF success
          THEN /\ pc' = "run_project"
               /\ main' = [main EXCEPT !.loaded = @ + 1, !.load_args = <<main.args>>]
          ELSE /\ pc' = "shutdown"
               /\ main' = [main EXCEPT !.loaded = @ + 1, !.load_args = <<main.args>>,
                                       !.session = "False"]
    /\ UNCHANGED <<exc, result, log, cur, next, heap, stage, step, response, spec,
                   arch, i, to_describe, j, attempt, feedback, obs>>

\* the slip of creating the project whenever the prompt returned, cancelled or not
start_new_project_when_answered(user_input) == user_input # "closed"

\* start_new_project goes on to create_project unless the prompt was interrupted
\* (KeyboardInterrupt, UIClosedError) or came back cancelled
start_new_project(user_input) == user_input = "continue"

\* the other branch: start_new_project asks for the project's name and creates
\* the project (create_project may return no state); the first snapshot has no
\* files and no architecture
StartNewProject ==
    /\ pc = "session"
    /\ ~IsContinuation(main.args)
    /\ \E user_input \in AskOutcomes, created \in BOOLEAN,
          project \in {p \in InitialProjects : p.specification.architecture = ""} :
          IF start_new_project(user_input) /\ created
          THEN /\ pc' = "run_project"
               /\ main' = [main EXCEPT !.asked = @ + 1, !.created = @ + 1,
                                       !.user_input = user_input]
               /\ heap' = [loaded |-> <<>>, bundle |-> ExampleDeps, dumped |-> <<>>]
               /\ log' = << Snapshot([project.specification EXCEPT
                                         !.system_dependencies = "loaded"],
                                     <<>>, project.action) >>
               /\ cur' = 1
               /\ next' = << log'[1] >>
               /\ obs' = NewObs(Snapshot(project.specification, <<>>, project.action))
               /\ stage' = "architecture"
               /\ spec' = log'[1].specification
          ELSE /\ pc' = "shutdown"
               /\ main' = [main EXCEPT !.asked = @ + 1, !.session = "False",
                                       !.user_input = user_input,
                                       !.created = IF start_new_project(user_input)
                                                   THEN @ + 1 ELSE @]
               /\ UNCHANGED <<heap, log, cur, next, obs, stage, spec>>
    /\ UNCHANGED <<exc, result, step, response, arch, i, to_describe, j, attempt,
                   feedback>>

\* run_project is entered with the state manager and the UI only: the arguments
\* and the API check's locals are not read again
RunProject ==
    /\ pc = "run_project"
    /\ pc' = "orca"
    /\ main' = [NewMain(NoArguments, <<>>) EXCEPT !.ui_started = TRUE]
    /\ UNCHANGED <<exc, result, log, cur, next, heap, stage, step, response, spec,
                   arch, i, to_describe, j, attempt, feedback, obs>>

\* run_pythagora_session returns what run_project returned
SessionReturn ==
    /\ pc = "returned"
    /\ pc' = "shutdown"
    /\ main' = [main EXCEPT !.session = result]
    /\ UNCHANGED <<exc, result, log, cur, next, heap, stage, step, response, spec,
                   arch, i, to_describe, j, attempt, feedback, obs>>

\* an exception that left run_project leaves run_pythagora_session and async_main
\* as well: neither has a try statement
SessionRaise ==
    /\ pc = "escaped"
    /\ pc' = "crashed"
    /\ UNCHANGED <<main, exc, result, log, cur, next, heap, stage, step, response,
                   spec, arch, i, to_describe, j, attempt, feedback, obs>>

\* async_main after the session: telemetry.send(), ui.stop(), return success
AsyncMainReturn ==
    /\ pc = "shutdown"
    /\ pc' = "exit"
    /\ main' = [main EXCEPT !.telemetry_sent = @ + 1, !.ui_stopped = @ + 1,
                            !.returned = main.session]
    /\ UNCHANGED <<exc, result, log, cur, next, heap, stage, step, response, spec,
                   arch, i, to_describe, j, attempt, feedback, obs>>

Next ==
    \/ AsyncMain
    \/ LlmApiCheck
    \/ LlmApiCheckReturn
    \/ LoadProject
    \/ StartNewProject
    \/ RunProject
    \/ SessionReturn
    \/ SessionRaise
    \/ AsyncMainReturn
    \/ CreateAgent
    \/ HandleDone
    \/ ArchitectRun
    \/ PlanArchitecture
    \/ WarnAboutDependencies
    \/ CheckSystemDependencies
    \/ AskInstalled
    \/ ArchitectReturn
    \/ CodeMonkeyRun
    \/ ImplementChanges
    \/ DescribeFiles
    \/ DescribeReturn
    \/ Review
    \/ RunReturn
    \/ ExceptInterrupt
    \/ ExceptAPIError
    \/ ExceptException

Spec == Init /\ [][Next]_vars

----------------------------------------------------------------------------
(* Properties *)

\* run_project is over: it returned, or an exception left it
Finished == pc \in {"returned", "escaped"}
\* an exception came out of Orchestrator.run
OrchestratorRaised == obs.raised_at # None
\* the Architect has returned done and the orchestrator has not yet handled it
ArchitectDone == pc = "orca" /\ obs.agent = "architect" /\ response.type = "done"
\* describe_files has returned done and the orchestrator has not yet handled it
DescribeDone == pc = "orca" /\ obs.agent = "code_monkey" /\ response.type = "done"

\* C1: whenever Orchestrator.run raises an APIError, a KeyboardInterrupt, a
\* UIClosedError or any other Exception, run_project has called rollback() by the
\* time it finishes and its outcome is False, on every path through every handler.
C1_RollbackOnEveryFailure ==
    (Finished /\ OrchestratorRaised) => (obs.rollbacks >= 1 /\ result = "False")

\* C2: no exception escapes run_project: after any exception out of the
\* orchestrator it ends by returning, never by raising to async_main.
C2_NoExceptionEscapes ==
    OrchestratorRaised => pc # "escaped"

C4_CancellationStopsTheStep ==
    obs.cancelled => /\ response.type # "done"
                     /\ Finished => (obs.rollbacks >= 1 /\ result = "False")

\* C5: the attempt numbers implement_changes hands to review for one file are
\* 1, 2, 3, ... in this order: 1 on the first draft (the previous response is no
\* code_review_feedback), the previous attempt plus 1 on each rework, and 1 again
\* for the next file.
C5_AttemptsCountUp ==
    /\ \A k \in 1..Len(obs.attempts) : obs.attempts[k] = k
    /\ pc = "implement" =>
          /\ attempt = Len(obs.attempts) + 1
          /\ response.type # "code_review_feedback" => attempt = 1
          /\ response.type = "code_review_feedback" =>
                attempt = response.data.attempt + 1

C5_Witness ==
    /\ stage = "implement"
    /\ step = 2
    /\ obs.finished = 3
    /\ obs.attempts = <<1, 2>>
    /\ pc = "implement"
    /\ attempt = 3

\* the files of the committed snapshot that describe_files has to describe
Pending(n) == ~Truthy(Get(obs.pre.files[n].meta, "description"))

\* C6: a file record without a description and with empty content causes no call
\* of the model, and when describe_files returns its metadata has description
\* "Empty file" and references []; when every file to describe is empty the step
\* calls the model 0 times.
C6_EmptyFileFastPath ==
    (obs.agent = "code_monkey" /\ stage = "describe") =>
        /\ \A n \in 1..Len(obs.pre.files) :
              (Pending(n) /\ obs.pre.files[n].content = "") =>
                  /\ obs.pre.files[n].path \notin Range(obs.described)
                  /\ DescribeDone =>
                        /\ working.files[n].meta["description"] = "Empty file"
                        /\ working.files[n].meta["references"] = <<>>
        /\ (\A n \in 1..Len(obs.pre.files) :
               Pending(n) => obs.pre.files[n].content = "") => obs.llm_calls = 0

C6_Witness ==
    /\ DescribeDone
    /\ stage = "describe"
    /\ obs.llm_calls = 0
    /\ \E n \in 1..Len(obs.pre.files) :
          /\ Pending(n)
          /\ obs.pre.files[n].content = ""
          /\ "lang" \in DOMAIN obs.pre.files[n].meta
          /\ working.files[n].meta["description"] = "Empty file"

\* C7: describe_files changes metadata only: every file record of the working
\* snapshot keeps its path and content, its metadata keys other than description
\* and references keep their values, and a file that had a description is
\* unchanged.
C7_DescribeChangesMetadataOnly ==
    (obs.agent = "code_monkey" /\ stage = "describe" /\ Len(next) = 1) =>
        /\ Len(working.files) = Len(obs.pre.files)
        /\ \A n \in 1..Len(obs.pre.files) :
              LET before == obs.pre.files[n]
                  after == working.files[n]
              IN  /\ after.path = before.path
                  /\ after.content = before.content
                  /\ \A k \in (DOMAIN before.meta) \ {"description", "references"} :
                        k \in DOMAIN after.meta /\ after.meta[k] = before.meta[k]
                  /\ (DOMAIN after.meta) \ {"description", "references"}
                        \subseteq DOMAIN before.meta
                  /\ ~Pending(n) => after = before

C7_Witness ==
    /\ DescribeDone
    /\ stage = "describe"
    /\ \E n \in 1..Len(obs.pre.files) :
          /\ Pending(n)
          /\ obs.pre.files[n].content # ""
          /\ "lang" \in DOMAIN obs.pre.files[n].meta
          /\ working.files[n].meta["description"] = "The entry point"
    /\ \E n \in 1..Len(obs.pre.files) : ~Pending(n)

\* C8: while the Architect or the CodeMonkey runs, and after it has returned or
\* failed, the committed snapshot (its specification with every system dependency
\* and installed flag, its files and their metadata, its action label) is what it
\* was when the agent started; what the agent wrote is in the working snapshot,
\* whose list of system dependencies is another object than the committed one.
C8_CommittedSnapshotUntouched ==
    obs.agent \in {"architect", "code_monkey"} =>
        /\ Deref(get_current) = obs.pre
        /\ ArchitectDone =>
              /\ working.specification = spec
              /\ working.action = ARCHITECTURE_STEP_NAME
              /\ working.specification.system_dependencies
                    # get_current.specification.system_dependencies

C8_Witness ==
    /\ ArchitectDone
    /\ Len(obs.ran) = MaxDeps
    /\ Deref(working).specification # obs.pre.specification
    /\ Deref(get_current) = obs.pre

\* C9: when Architect.run returns done, the test command of every declared system
\* dependency has run once, in order, installed is (exit code = 0) for each, the
\* operator was asked once for each dependency whose command failed, and the flags
\* are in the specification of the working snapshot; only the operator closing
\* or interrupting the session ends the dependency check early.
C9_DependenciesCheckedAndRecorded ==
    /\ ArchitectDone =>
          LET deps == Deref(working).specification.system_dependencies
              failed == SelectSeq(obs.ran, LAMBDA r : r.status_code # 0)
          IN  /\ Len(obs.ran) = Len(deps)
              /\ \A n \in 1..Len(deps) :
                    /\ obs.ran[n].dep = n
                    /\ "installed" \in DOMAIN deps[n]
                    /\ deps[n]["installed"] = (obs.ran[n].status_code = 0)
              /\ obs.prompts = [n \in 1..Len(failed) |-> failed[n].dep]
    /\ (pc = "except" /\ obs.raised_at \in {"check_deps", "ask_installed"}) =>
          exc \in {"KeyboardInterrupt", "UIClosedError"}

C9_Witness ==
    /\ ArchitectDone
    /\ Len(obs.ran) = 2
    /\ obs.ran[1].status_code = 1
    /\ obs.ran[2].status_code = 0
    /\ obs.prompts = <<1>>
    /\ Deref(working).specification.system_dependencies[1]["installed"] = FALSE
    /\ Deref(working).specification.system_dependencies[2]["installed"] = TRUE

\* C10: for an example project Architect.run takes architecture, system and package
\* dependencies and template from the predefined bundle and never calls the model;
\* for any other project it calls the model exactly once; either way the
\* dependency check has run over all dependencies when it returns, and the
\* specification is in the working snapshot.
C10_ExampleLookupOrOneModelCall ==
    obs.agent = "architect" =>
        LET example == obs.pre.specification.example_project # None
        IN  /\ example => obs.llm_calls = 0
            /\ obs.llm_calls <= 1
            /\ ArchitectDone =>
                  /\ ~example => obs.llm_calls = 1
                  /\ example =>
                        /\ spec.architecture = ExampleArchitecture.architecture
                        /\ spec.system_dependencies =
                              ExampleArchitecture.system_dependencies
                        /\ spec.package_dependencies =
                              ExampleArchitecture.package_dependencies
                        /\ spec.template = ExampleArchitecture.template
                  /\ Len(obs.ran) = Len(heap[spec.system_dependencies])
                  /\ working.specification = spec

C10_Witness ==
    /\ ArchitectDone
    /\ obs.pre.specification.example_project # None
    /\ obs.llm_calls = 0
    /\ Len(obs.ran) = MaxDeps
    /\ working.specification.architecture = "example app"

\* the declared names that are on a denylist when case is ignored
DenylistedSystemNames == {"Docker"}
DenylistedFrameworkNames == {"Vue.js"}
Denylisted(deps, names) == {n \in 1..Len(deps) : deps[n].name \in names}

ProjectChosen == main.loaded + main.asked > 0

\* C12: a session that names a branch or a step index (0 included) calls
\* load_project and starts no new project; a session that names neither starts a
\* new project.
C12_ResumeWhenBranchOrStepNamed ==
    ProjectChosen =>
        IF main.args.branch # None \/ main.args.step # <<>>
        THEN main.loaded = 1 /\ main.asked = 0 /\ main.created = 0
        ELSE main.loaded = 0 /\ main.asked = 1

\* CodeMonkey.run has returned and the orchestrator has not yet handled the response
CodeMonkeyReturned == pc = "orca" /\ obs.agent = "code_monkey"
\* the previous response CodeMonkey was invoked with asks for descriptions, or
\* carries review feedback
PrevDescribes == obs.prev.type = "describe_files"
PrevRework == obs.prev.type = "code_review_feedback"
\* the content the committed snapshot had for a path at the invocation ("" for none)
CommittedContent(path) ==
    IF \E n \in 1..Len(obs.pre.files) : obs.pre.files[n].path = path
    THEN obs.pre.files[CHOOSE n \in 1..Len(obs.pre.files) :
                           obs.pre.files[n].path = path].content
    ELSE ""
\* variant, attempt number, response tag and action label as the previous
\* response and the snapshots at the invocation determine them
ExpectedVariant == IF PrevDescribes THEN "describe_files" ELSE "implement_changes"
ExpectedAttempt == IF PrevRework THEN obs.prev.data.attempt + 1 ELSE 1
ExpectedTag == IF PrevDescribes THEN "done" ELSE "code_review"
ExpectedAction ==
    IF PrevDescribes \/ PrevRework
    THEN obs.pre_next.action
    ELSE << IF CommittedContent(TaskSteps[step]) # "" THEN "Update file"
            ELSE "Create file",
            Basename(TaskSteps[step]) >>

\* C13: CodeMonkey's control flow is a function of the previous response and the
\* snapshot: whatever the model answers, the variant run, the attempt number, the
\* tag of the returned response and the action label are the values that the
\* previous response and the snapshot alone determine.
C13_ControlFlowIndependentOfModel ==
    (obs.agent = "code_monkey" /\ obs.variant # None) =>
        /\ obs.variant = ExpectedVariant
        /\ pc = "implement" => attempt = ExpectedAttempt /\ working.action = ExpectedAction
        /\ CodeMonkeyReturned =>
              /\ response.type = ExpectedTag
              /\ response.type = "code_review" =>
                    response.data.attempt = ExpectedAttempt
              /\ working.action = ExpectedAction

C13_Witness ==
    /\ CodeMonkeyReturned
    /\ PrevRework
    /\ obs.prev.data.attempt = 2
    /\ response.data.attempt = 3
    /\ response.data.new_content # obs.prev.data.new_content
    /\ working.action = << "Update file", "util.py" >>

\* C14: CodeMonkey.run runs describe_files exactly when the previous response's tag
\* is describe_files and implement_changes otherwise (no previous response, or
\* review feedback), never both: an invocation that describes files proposes no
\* content and sets no label, one that implements describes no file.
C14_VariantByPreviousTag ==
    obs.agent = "code_monkey" =>
        /\ pc = "describe" => PrevDescribes /\ obs.variant = "describe_files"
        /\ pc = "implement" => ~PrevDescribes /\ obs.variant = "implement_changes"
        /\ obs.variant = "describe_files" =>
              /\ PrevDescribes
              /\ CodeMonkeyReturned => response.type = "done"
              /\ pc \in {"describe", "orca"} =>
                    /\ working.action = obs.pre_next.action
                    /\ obs.llm_calls = Len(obs.described)
        /\ obs.variant = "implement_changes" =>
              /\ obs.prev.type \in {None, "code_review_feedback"}
              /\ CodeMonkeyReturned => response.type = "code_review"
              /\ Len(obs.described) = 0
              /\ pc \in {"implement", "orca"} =>
                    Deref(working).files = obs.pre_next.files

C14_Witness ==
    /\ CodeMonkeyReturned
    /\ PrevRework
    /\ obs.variant = "implement_changes"
    /\ response.type = "code_review"

\* how often describe_files has sent the file with this path to the model
ModelCallsFor(path) ==
    Cardinality({k \in 1..Len(obs.described) : obs.described[k] = path})

\* C15: describe_files calls the model once for each file record that lacks a
\* description and has content and never for another file; it returns one done
\* response, after the last file; when it returns, every file record that lacked
\* a description has a description and references in the working snapshot.
C15_OneModelCallPerPendingFile ==
    (obs.agent = "code_monkey" /\ obs.variant = "describe_files") =>
        /\ obs.llm_calls = Len(obs.described)
        /\ \A k \in 1..Len(obs.described) :
              \E n \in 1..Len(obs.pre.files) : obs.pre.files[n].path = obs.described[k]
        /\ \A n \in 1..Len(obs.pre.files) :
              LET file == obs.pre.files[n]
                  calls == ModelCallsFor(file.path)
              IN  /\ calls <= 1
                  /\ ~(Pending(n) /\ file.content # "") => calls = 0
                  /\ DescribeDone =>
                        /\ (Pending(n) /\ file.content # "") => calls = 1
                        /\ Pending(n) =>
                              {"description", "references"}
                                  \subseteq DOMAIN working.files[n].meta
        /\ pc = "describe" => response = obs.prev
        /\ pc = "orca" =>
              /\ response = Done
              /\ j = Len(obs.pre.files) + 1

C15_Witness ==
    /\ DescribeDone
    /\ obs.variant = "describe_files"
    /\ obs.llm_calls = 1
    /\ \E n, m, k \in 1..Len(obs.pre.files) :
          /\ Pending(n) /\ obs.pre.files[n].content = ""
          /\ ~Pending(m)
          /\ Pending(k) /\ obs.pre.files[k].content # ""
          /\ obs.described = << obs.pre.files[k].path >>
          /\ working.files[n].meta["description"] = "Empty file"
          /\ working.files[k].meta["description"] = "The entry point"

\* C16: an implement_changes that completes returns a code_review response with
\* the step's path, the task's instructions, the file's committed content, the
\* proposed content and the attempt number, never done; it changes no file record
\* and nothing else of the working snapshot but the action label, which it sets
\* on a first attempt only; the committed snapshot stays as it was.
C16_ImplementEndsProposed ==
    (CodeMonkeyReturned /\ obs.variant = "implement_changes") =>
        /\ response.type = "code_review"
        /\ response.data.path = TaskSteps[step]
        /\ response.data.instructions = TaskInstructions
        /\ response.data.old_content = CommittedContent(TaskSteps[step])
        /\ response.data.new_content \in Contents
        /\ response.data.attempt = ExpectedAttempt
        /\ response.data.attempt >= 1
        /\ Deref(get_current) = obs.pre
        /\ IF response.data.attempt = 1
           THEN /\ ~PrevRework
                /\ Deref(working) =
                      [obs.pre_next EXCEPT !.action =
                          << IF response.data.old_content # "" THEN "Update file"
                             ELSE "Create file",
                             Basename(response.data.path) >>]
           ELSE /\ PrevRework
                /\ Deref(working) = obs.pre_next

C16_Witness ==
    /\ CodeMonkeyReturned
    /\ obs.variant = "implement_changes"
    /\ response.data.attempt = 2
    /\ response.data.old_content = "old"
    /\ response.data.new_content = "code"
    /\ Len(obs.pre_next.files) = 2
    /\ working.action = << "Update file", "app.py" >>

\* where async_main stands before run_project is entered
SessionPcs == {"async_main", "llm_api_check", "session", "run_project"}
\* llm_api_check went through every configuration and returned True
ApiCheckSucceeded ==
    /\ main.k = Len(main.llms) + 1
    /\ main.success
    /\ Len(main.contacted) >= 1
    /\ \A n \in 1..Len(main.contacted) : main.contacted[n].resp = "truthy"
\* the orchestrator has not run: no agent was invoked, nothing was committed
OrchestratorNotRun == obs = NewObs(obs.start) /\ stage \in {"architecture", "implement"}

\* C17: run_project, and with it Orchestrator.run, is entered only after the API
\* check succeeded and then a project was loaded or created; after a failed API
\* check no project is loaded or created; after a failed load_project, or a
\* cancelled or interrupted project-name prompt, the session returns False with
\* no project created and the orchestrator never run.
C17_OrchestratorAfterCheckAndProject ==
    /\ pc \in SessionPcs => OrchestratorNotRun /\ result = None
    /\ ProjectChosen => ApiCheckSucceeded
    /\ ~main.success => main.loaded = 0 /\ main.asked = 0 /\ main.created = 0
    /\ pc = "run_project" =>
          /\ ApiCheckSucceeded
          /\ main.loaded + main.created = 1
          /\ main.loaded = 1 => main.asked = 0
          /\ main.created = 1 => main.asked = 1 /\ main.user_input = "continue"
    /\ (pc \in {"shutdown", "exit"} /\ (ProjectChosen \/ ~main.success)) =>
          /\ main.session = "False"
          /\ OrchestratorNotRun
          /\ result = None
          /\ main.loaded = 1 => main.created = 0
          /\ main.user_input \in {"cancelled", "closed"} => main.created = 0

C17_Witness ==
    /\ pc = "exit"
    /\ main.asked = 1
    /\ main.user_input = "cancelled"
    /\ main.returned = "False"
    /\ Len(main.contacted) = 2

\* C18: when async_main is over and ui.start() had succeeded, telemetry.send() and
\* ui.stop() have been called exactly once each, whatever the session's outcome.
C18_TelemetrySentAndUiStopped ==
    (pc \in {"exit", "crashed"} /\ main.ui_started) =>
        main.telemetry_sent = 1 /\ main.ui_stopped = 1

\* how often llm_api_check has contacted a provider
ContactsOf(provider) ==
    Cardinality({n \in 1..Len(main.contacted) : main.contacted[n].provider = provider})

\* C19: llm_api_check contacts each provider at most once, however many
\* configurations name it; it goes on after a failure, contacting a provider of
\* every configuration; it returns True exactly when every check it made came
\* back truthy without APIError.
C19_EachProviderCheckedOnce ==
    /\ \A provider \in LLMProvider : ContactsOf(provider) <= 1
    /\ (pc = "llm_api_check" /\ main.k = Len(main.llms) + 1) =>
          /\ \A n \in 1..Len(main.llms) : ContactsOf(main.llms[n]) >= 1
          /\ main.success <=>
                \A n \in 1..Len(main.contacted) : main.contacted[n].resp = "truthy"

====
